---- MODULE Spec2Model ----
(***************************************************************************)
(* State-machine model of drivers/tty/serial/mca-cc6ul-uart.c: the UART    *)
(* whose registers live behind a sleeping bus (regmap over I2C).           *)
(*                                                                         *)
(* Five contexts are modelled, each with a program counter:                *)
(*   req  the serial core calling stop_tx / stop_rx / start_tx from        *)
(*        atomic context (serialised by the port spinlock)                 *)
(*   ctl  the serial core calling startup / shutdown / set_termios         *)
(*   irq  the threaded interrupt handler (with the RX engine inline)       *)
(*   tx   the tx_work item (TX engine)                                     *)
(*   dw   the delayed_work item (deferred control worker)                  *)
(* A bus access is not atomic: a context is performing one while its pc    *)
(* is at a bus location; the step leaving that location completes it.      *)
(***************************************************************************)
EXTENDS Integers, Sequences, FiniteSets, TLC

\* ------------------------------------------------------------------ bounds
\* number of calls the environment makes (requests, port operations,
\* interrupts, line-discipline writes) in one behaviour
MaxCalls == 4
\* largest receive FIFO level the hardware reports in the RX specification
MaxLevel == 3
\* size of the circular transmit buffer in the model (UART_XMIT_SIZE)
XmitSize == 4
\* low-water mark of the transmit buffer in the model (WAKEUP_CHARS)
WAKEUP_CHARS == 2

\* interrupts are raised while fewer than MaxRx bytes were received
MaxRx == 2

\* --------------------------------------------------------------- constants
MCA_UART_DEFAULT_BRATE == 9600

\* the value MCA_REG_UART_BAUD_<rate> of the baud-select register
MCA_REG_UART_BAUD(rate) == <<"MCA_REG_UART_BAUD", rate>>

MCA_UART_DEFAULT_BAUD_REG == MCA_REG_UART_BAUD(9600)

MCA_UART_RX_FIFO_SIZE == 128
MCA_UART_TX_FIFO_SIZE == 128

WORK_STOP_RX == "WORK_STOP_RX"
WORK_STOP_TX == "WORK_STOP_TX"
WORK_SET_RTS == "WORK_SET_RTS"
WORK_CLEAR_RTS == "WORK_CLEAR_RTS"
WorkBits == {WORK_STOP_RX, WORK_STOP_TX, WORK_SET_RTS, WORK_CLEAR_RTS}

\* register bits, as sets of bit names
IER_THR == "IER_THR"
IER_RHR == "IER_RHR"
IER_RLSE == "IER_RLSE"
CFG0_ENABLE == "CFG0_ENABLE"
CFG0_CTX == "CFG0_CTX"
CFG0_CRX == "CFG0_CRX"
CFG0_TXEN == "CFG0_TXEN"
CFG0_RXEN == "CFG0_RXEN"
IIR_RHR == "IIR_RHR"
IIR_THR == "IIR_THR"
IIR_RLSE == "IIR_RLSE"
MSR_RTS == "MSR_RTS"

Procs == {"req", "ctl", "irq", "tx", "dw"}
Works == {"tx", "dw"}

VARIABLES
    pc,            \* position of each context
    mutex,         \* mca_uart->mutex: "free" or the context that locked it
    pending_work,  \* mca_uart->pending_work, a set of WORK_ bits
    wq_pending,    \* WORK_STRUCT_PENDING bit of each work item
    wq_queued,     \* number of queue entries of each work item
    wq_running,    \* number of executing instances of each work item
    wq_canceling,  \* cancel_work_sync in progress on the work item
    IER, CFG0, CFG1, BAUD, MSR,   \* the device's registers
    req_tmp,       \* value loaded by pending_work |= bit, before the store
    dw_ier_mask, dw_cfg0_mask, dw_msr,  \* locals of the control worker
    iir,           \* local iir of the irq handler, from the read to its tests
    irq_thr, has_errors, rxlen, error_buf, \* locals of the irq handler / RX
    rhr_failed,    \* data reads of RHR that failed so far in mca_uart_handle_rx
    tx_buf,        \* staged bytes of the TX engine
    tx_to_send, tx_txlen,  \* locals to_send and txlen of mca_uart_handle_tx
    ctl_arg,       \* register values computed by set_termios
    has_rtscts,    \* mca_uart->has_rtscts, set at probe
    tty,           \* port->state->port.tty is not NULL
    tx_stopped,    \* uart_tx_stopped(port)
    xmit_head, xmit_tail,  \* port->state->xmit
    icount,        \* port->icount
    rx_pushed,     \* bytes pushed to the sink in the current RX batch
    rx_flushes,    \* tty_flip_buffer_push calls of the current RX batch
    wakeups,       \* uart_write_wakeup calls of the current TX run
    started,       \* the serial core considers the port started
    calls,         \* number of environment calls made so far
    \* history variables, read by the properties only
    after_stop,    \* shutdown has returned and startup was not called since
    stop_seen,     \* work items that were running when shutdown was last called
    stop_inflight, \* those of them that are still running
    owed,          \* intents stored and not yet taken by a worker run
    hist,          \* OR of the intents requested since the last worker run
    clean,         \* no request overlapped a worker run since then
    dw_run,        \* the current/last worker run: its register writes, and at its end
                   \* the intents requested before it and pending_work
    tx_owed, dw_owed, \* a run is owed to a request: "no", "owed", "covered"
    tx_hist,       \* bytes taken from the circular buffer, and bytes the device got
    rx_in,         \* inputs and entry snapshot of the current RX invocation
    ctl_ret,       \* outcome of the last port operation
    ctl_op         \* that operation, and the registers whose write failed in it

progv == <<pc, mutex, pending_work, wq_pending, wq_queued, wq_running, wq_canceling>>
hwv == <<IER, CFG0, CFG1, BAUD, MSR>>
localv == <<req_tmp, dw_ier_mask, dw_cfg0_mask, dw_msr, iir, irq_thr, has_errors, rxlen, rhr_failed, error_buf, tx_buf, tx_to_send, tx_txlen, ctl_arg, has_rtscts>>
portv == <<tty, tx_stopped, xmit_head, xmit_tail, icount, rx_pushed, rx_flushes, wakeups>>
envv == <<started, calls>>
histv == <<after_stop, stop_seen, stop_inflight, owed, hist, clean, dw_run, tx_owed, tx_hist, dw_owed, rx_in, ctl_ret, ctl_op>>
vars == <<progv, hwv, localv, portv, envv, histv>>

\* ------------------------------------------------------------ bus and regs
\* locations at which a context is inside a regmap call
BusPcs == {"su_cfg0", "su_ier", "sd_cfg0", "sd_ier", "st_cfg1", "st_baud",
           "rd_iir", "rd_rxlvl", "rd_lsr", "rd_errs", "rd_rhr", "rd_rhr2",
           "rd_txlvl", "wr_thr", "wr_ier", "wr_cfg0", "wr_msr"}

InBus(p) == pc[p] \in BusPcs

\* regmap_update_bits(reg, mask, val): the new register value
update_bits(old, mask, val) == (old \ mask) \cup (val \cap mask)

Min(a, b) == IF a < b THEN a ELSE b

\* ---------------------------------------------------------------- workqueue
\* work_pending(w): the PENDING bit, set while the work is queued and held
\* by cancel_work_sync while it cancels
work_pending(w) == wq_pending[w] \/ wq_canceling[w]

\* schedule_work(w): queue the work unless its PENDING bit is already set
\* (a cancel_work_sync in progress owns the bit)
schedule_work(w, pend, queued) ==
    IF pend[w] \/ wq_canceling[w]
    THEN [pend |-> pend, queued |-> queued]
    ELSE [pend |-> [pend EXCEPT ![w] = TRUE], queued |-> [queued EXCEPT ![w] = @ + 1]]

\* the end of a work function: the instance stops executing
RunEnds(w) ==
    /\ wq_running' = [wq_running EXCEPT ![w] = @ - 1]
    /\ stop_inflight' = stop_inflight \ {w}

NoRun == [writes |-> <<>>, done |-> FALSE, clean |-> FALSE, intents |-> {}, after |-> {}]

\* the state after probe, but for pending_work
InitRest ==
    /\ pc = [p \in Procs |-> "idle"]
    /\ mutex = "free"
    /\ wq_pending = [w \in Works |-> FALSE]
    /\ wq_queued = [w \in Works |-> 0]
    /\ wq_running = [w \in Works |-> 0]
    /\ wq_canceling = [w \in Works |-> FALSE]
    /\ IER = {}
    /\ CFG0 = {CFG0_ENABLE}
    /\ CFG1 = {}
    /\ BAUD = MCA_UART_DEFAULT_BAUD_REG
    /\ MSR = {}
    /\ req_tmp = {}
    /\ dw_ier_mask = {}
    /\ dw_cfg0_mask = {}
    /\ dw_msr = "none"
    /\ iir = {}
    /\ irq_thr = FALSE
    /\ has_errors = FALSE
    /\ rxlen = 0
    /\ rhr_failed = 0
    /\ error_buf = <<>>
    /\ tx_buf = <<>>
    /\ tx_to_send = 0
    /\ tx_txlen = 0
    /\ ctl_arg = [cfg1 |-> {}, rate |-> 0, baud |-> MCA_UART_DEFAULT_BAUD_REG]
    /\ has_rtscts = {"RTS", "CTS"}
    /\ tty = FALSE
    /\ tx_stopped = FALSE
    /\ xmit_head = 0
    /\ xmit_tail = 0
    /\ icount = [rx |-> 0, tx |-> 0, frame |-> 0, parity |-> 0, overrun |-> 0, brk |-> 0]
    /\ rx_pushed = <<>>
    /\ rx_flushes = 0
    /\ wakeups = 0
    /\ started = FALSE
    /\ calls = 0
    /\ after_stop = FALSE
    /\ stop_inflight = {}
    /\ stop_seen = {}
    /\ owed = {}
    /\ hist = {}
    /\ clean = TRUE
    /\ dw_run = NoRun
    /\ tx_owed = "no"
    /\ tx_hist = [taken |-> <<>>, written |-> <<>>]
    /\ dw_owed = "no"
    /\ rx_in = [level |-> 0, he |-> FALSE, errs |-> <<>>, bytes |-> <<>>, icount |-> icount, outcome |-> "none"]
    /\ ctl_ret = "none"
    /\ ctl_op = [op |-> "none", failed |-> {}]

Init == InitRest /\ pending_work = {}


\* the driver's idiom: if (!work_pending(w)) schedule_work(w)
Sched(w) ==
    LET r == IF work_pending(w)
             THEN [pend |-> wq_pending, queued |-> wq_queued]
             ELSE schedule_work(w, wq_pending, wq_queued)
    IN /\ wq_pending' = r.pend
       /\ wq_queued' = r.queued

\* ------------------------------------------------- requests (atomic context)
\* pending_work |= bit is a load followed by a store; nothing orders it
\* against the worker's pending_work = 0
StopCall(bit, store_pc) ==
    /\ pc["req"] = "idle"
    /\ calls < MaxCalls
    /\ calls' = calls + 1
    /\ req_tmp' = pending_work
    /\ pc' = [pc EXCEPT !["req"] = store_pc]
    /\ hist' = hist \cup {bit}
    /\ clean' = (clean /\ wq_running["dw"] = 0)
    /\ UNCHANGED <<mutex, pending_work, wq_pending, wq_queued, wq_running, wq_canceling>>
    /\ UNCHANGED <<hwv, portv, started>>
    /\ UNCHANGED <<dw_ier_mask, dw_cfg0_mask, dw_msr, iir, irq_thr, has_errors, rxlen, rhr_failed, error_buf, tx_buf, tx_to_send, tx_txlen, ctl_arg, has_rtscts>>
    /\ UNCHANGED <<after_stop, stop_seen, stop_inflight, owed, dw_run, tx_owed, tx_hist, dw_owed, rx_in, ctl_ret, ctl_op>>

stop_store_assign(bit) == {bit}

stop_store(bit) == req_tmp \cup {bit}

StopStoreCore(bit, store_pc, sched_pc) ==
    /\ pc["req"] = store_pc
    /\ pending_work' = stop_store(bit)
    /\ owed' = owed \cup {bit}
    /\ req_tmp' = {}
    /\ pc' = [pc EXCEPT !["req"] = sched_pc]
    /\ UNCHANGED <<mutex, wq_pending, wq_queued, wq_running, wq_canceling>>
    /\ UNCHANGED <<hwv, portv, envv>>
    /\ UNCHANGED <<dw_ier_mask, dw_cfg0_mask, dw_msr, iir, irq_thr, has_errors, rxlen, rhr_failed, error_buf, tx_buf, tx_to_send, tx_txlen, ctl_arg, has_rtscts>>
    /\ UNCHANGED <<after_stop, stop_seen, stop_inflight, hist, clean, dw_run, tx_owed, tx_hist, dw_owed, rx_in, ctl_ret, ctl_op>>

\* the same store made under mutex_lock
StopStoreLocked(bit, store_pc, sched_pc) ==
    /\ mutex = "free"
    /\ StopStoreCore(bit, store_pc, sched_pc)

StopStore(bit, store_pc, sched_pc) == StopStoreCore(bit, store_pc, sched_pc)

StopSched(sched_pc) ==
    /\ pc["req"] = sched_pc
    /\ Sched("dw")
    /\ dw_owed' = "owed"
    /\ pc' = [pc EXCEPT !["req"] = "idle"]
    /\ UNCHANGED <<mutex, pending_work, wq_running, wq_canceling>>
    /\ UNCHANGED <<hwv, localv, portv, envv>>
    /\ UNCHANGED <<after_stop, stop_seen, stop_inflight, owed, hist, clean, dw_run, tx_owed, tx_hist, rx_in, ctl_ret, ctl_op>>

mca_uart_stop_tx ==
    \/ StopCall(WORK_STOP_TX, "stx_store")
    \/ StopStore(WORK_STOP_TX, "stx_store", "stx_sched")
    \/ StopSched("stx_sched")

mca_uart_stop_rx ==
    \/ StopCall(WORK_STOP_RX, "srx_store")
    \/ StopStore(WORK_STOP_RX, "srx_store", "srx_sched")
    \/ StopSched("srx_sched")

mca_uart_start_tx ==
    /\ pc["req"] = "idle"
    /\ calls < MaxCalls
    /\ calls' = calls + 1
    /\ Sched("tx")
    /\ tx_owed' = "owed"
    /\ UNCHANGED tx_hist
    /\ UNCHANGED <<pc, mutex, pending_work, wq_running, wq_canceling>>
    /\ UNCHANGED <<hwv, localv, portv, started>>
    /\ UNCHANGED <<after_stop, stop_seen, stop_inflight, owed, hist, clean, dw_run, dw_owed, rx_in, ctl_ret, ctl_op>>

\* the line discipline queues k bytes in the circular buffer (uart_write)
uart_circ_chars_pending == (xmit_head - xmit_tail) % XmitSize

uart_circ_empty == xmit_head = xmit_tail

uart_write(Ks) ==
    /\ tty
    /\ calls < MaxCalls
    /\ calls' = calls + 1
    /\ \E k \in Ks \cap 1..(XmitSize - 1 - uart_circ_chars_pending) :
          xmit_head' = (xmit_head + k) % XmitSize
    /\ UNCHANGED <<progv, hwv, localv, histv, started>>
    /\ UNCHANGED <<tty, tx_stopped, xmit_tail, icount, rx_pushed, rx_flushes, wakeups>>


\* ------------------------------------------------------------ worker threads
\* a kworker takes a queued work item: the PENDING bit is cleared and the
\* function is called; a work item is never run by two kworkers at once
worker_can_start_reentrant(w) == wq_queued[w] > 0

worker_can_start(w) == wq_queued[w] > 0 /\ wq_running[w] = 0

Covered(o) == IF o = "owed" THEN "covered" ELSE o

Settled(o) == IF o = "covered" THEN "no" ELSE o

process_one_work(w) ==
    /\ worker_can_start(w)
    /\ wq_queued' = [wq_queued EXCEPT ![w] = @ - 1]
    /\ wq_pending' = [wq_pending EXCEPT ![w] = FALSE]
    /\ wq_running' = [wq_running EXCEPT ![w] = @ + 1]
    /\ pc' = [pc EXCEPT ![w] = IF @ = "idle" THEN "lock" ELSE @]
    /\ IF w = "dw"
       THEN /\ clean' = (clean /\ pc["req"] = "idle")
            /\ dw_owed' = Covered(dw_owed)
            /\ dw_run' = NoRun
            /\ UNCHANGED <<tx_owed, tx_hist, wakeups>>
       ELSE /\ tx_owed' = Covered(tx_owed)
            /\ wakeups' = 0
            /\ UNCHANGED tx_hist
            /\ UNCHANGED <<clean, dw_owed, dw_run>>
    /\ UNCHANGED <<mutex, pending_work, wq_canceling>>
    /\ UNCHANGED <<hwv, localv, envv>>
    /\ UNCHANGED <<tty, tx_stopped, xmit_head, xmit_tail, icount, rx_pushed, rx_flushes>>
    /\ UNCHANGED <<after_stop, stop_seen, stop_inflight, owed, hist, rx_in, ctl_ret, ctl_op>>

\* ------------------------------------------------- deferred control worker
ier_mask_of(pw) ==
    (IF WORK_STOP_RX \in pw THEN {IER_RHR} ELSE {}) \cup
    (IF WORK_STOP_TX \in pw THEN {IER_THR} ELSE {})

cfg0_mask_of(pw) ==
    (IF WORK_STOP_RX \in pw THEN {CFG0_CRX} ELSE {}) \cup
    (IF WORK_STOP_TX \in pw THEN {CFG0_CTX} ELSE {})

\* the value written under cfg0_mask: MCA_REG_UART_CFG0_CRX | MCA_REG_UART_CFG0_CRX
cfg0_val == {CFG0_CRX} \cup {CFG0_CRX}

\* a worker that leaves the pending bits as they are
dw_pending_kept(pw) == pw

\* mca_uart->pending_work = 0
dw_pending_cleared(pw) == {}

\* the end of a worker run that had work: pending_work = 0; mutex_unlock
Cfg0Write == <<"CFG0", dw_cfg0_mask, cfg0_val \cap dw_cfg0_mask>>

DwFinish(writes) ==
    /\ dw_run' = [writes |-> writes, done |-> TRUE, clean |-> clean, intents |-> hist, after |-> {}]
    /\ pending_work' = dw_pending_cleared(pending_work)
    /\ mutex' = "free"
    /\ pc' = [pc EXCEPT !["dw"] = "idle"]
    /\ RunEnds("dw")
    /\ hist' = {}
    /\ clean' = (pc["req"] = "idle")
    /\ dw_owed' = Settled(dw_owed)

\* a worker for which WORK_CLEAR_RTS takes precedence
msr_mask_clear_first(pw) == IF WORK_CLEAR_RTS \in pw THEN {} ELSE {MSR_RTS}

\* msr_mask = pending_work & WORK_SET_RTS ? MCA_REG_UART_MSR_RTS : 0
msr_mask_of(pw) == IF WORK_SET_RTS \in pw THEN {MSR_RTS} ELSE {}

\* a worker that goes on to the writes with nothing pending
dw_never_returns(pw) == FALSE

\* if (!mca_uart->pending_work) return
dw_nothing_pending(pw) == pw = {}

\* mutex_lock, and the test of pending_work; with nothing pending the
\* function returns with the mutex still locked
dw_lock ==
    /\ pc["dw"] = "lock"
    /\ mutex = "free"
    /\ IF dw_nothing_pending(pending_work)
       THEN /\ mutex' = "dw"
            /\ pc' = [pc EXCEPT !["dw"] = "idle"]
            /\ RunEnds("dw")
            /\ hist' = {}
            /\ clean' = (pc["req"] = "idle")
            /\ dw_owed' = Settled(dw_owed)
            /\ dw_run' = [writes |-> <<>>, done |-> TRUE, clean |-> clean, intents |-> hist, after |-> pending_work]
            /\ UNCHANGED <<dw_ier_mask, dw_cfg0_mask, owed>>
       ELSE /\ mutex' = "dw"
            /\ dw_ier_mask' = ier_mask_of(pending_work)
            /\ dw_cfg0_mask' = cfg0_mask_of(pending_work)
            /\ owed' = owed \ pending_work
            /\ pc' = [pc EXCEPT !["dw"] = "wr_ier"]
            /\ UNCHANGED <<wq_running, stop_inflight, hist, clean, dw_owed, dw_run>>
    /\ UNCHANGED <<pending_work, wq_pending, wq_queued, wq_canceling>>
    /\ UNCHANGED <<hwv, portv, envv>>
    /\ UNCHANGED <<req_tmp, dw_msr, iir, irq_thr, has_errors, rxlen, rhr_failed, error_buf, tx_buf, tx_to_send, tx_txlen, ctl_arg, has_rtscts>>
    /\ UNCHANGED <<after_stop, stop_seen, tx_owed, tx_hist, rx_in, ctl_ret, ctl_op>>

\* regmap_update_bits(MCA_REG_UART_IER, ier_mask, 0)
dw_wr_ier ==
    /\ pc["dw"] = "wr_ier"
    /\ \E ok \in BOOLEAN :
          /\ IER' = IF ok THEN update_bits(IER, dw_ier_mask, {}) ELSE IER
          /\ dw_run' = [dw_run EXCEPT !.writes = Append(@, <<"IER", dw_ier_mask, {}>>)]
    /\ pc' = [pc EXCEPT !["dw"] = "wr_cfg0"]
    /\ UNCHANGED <<mutex, pending_work, wq_pending, wq_queued, wq_running, wq_canceling>>
    /\ UNCHANGED <<CFG0, CFG1, BAUD, MSR>>
    /\ UNCHANGED <<localv, portv, envv>>
    /\ UNCHANGED <<after_stop, stop_seen, stop_inflight, owed, hist, clean, tx_owed, tx_hist, dw_owed, rx_in, ctl_ret, ctl_op>>

\* regmap_update_bits(MCA_REG_UART_CFG0, cfg0_mask, CRX | CRX), then the
\* test of the RTS bits, and without them the end of the run
dw_wr_cfg0 ==
    /\ pc["dw"] = "wr_cfg0"
    /\ \E ok \in BOOLEAN :
          /\ CFG0' = IF ok THEN update_bits(CFG0, dw_cfg0_mask, cfg0_val) ELSE CFG0
    /\ IF pending_work \cap {WORK_SET_RTS, WORK_CLEAR_RTS} # {}
       THEN /\ dw_msr' = msr_mask_of(pending_work)
            /\ pc' = [pc EXCEPT !["dw"] = "wr_msr"]
            /\ dw_run' = [dw_run EXCEPT !.writes = Append(@, Cfg0Write)]
            /\ UNCHANGED <<mutex, pending_work, wq_running, stop_inflight, hist, clean, dw_owed>>
       ELSE /\ DwFinish(Append(dw_run.writes, Cfg0Write))
            /\ UNCHANGED dw_msr
    /\ UNCHANGED <<wq_pending, wq_queued, wq_canceling>>
    /\ UNCHANGED <<IER, CFG1, BAUD, MSR>>
    /\ UNCHANGED <<portv, envv>>
    /\ UNCHANGED <<req_tmp, dw_ier_mask, dw_cfg0_mask, iir, irq_thr, has_errors, rxlen, rhr_failed, error_buf, tx_buf, tx_to_send, tx_txlen, ctl_arg, has_rtscts>>
    /\ UNCHANGED <<after_stop, stop_seen, owed, tx_owed, tx_hist, rx_in, ctl_ret, ctl_op>>

\* regmap_update_bits(MCA_REG_UART_MSR, MCA_REG_UART_MSR_RTS, msr_mask)
dw_wr_msr ==
    /\ pc["dw"] = "wr_msr"
    /\ \E ok \in BOOLEAN :
          /\ MSR' = IF ok THEN update_bits(MSR, {MSR_RTS}, dw_msr) ELSE MSR
    /\ DwFinish(Append(dw_run.writes, <<"MSR", {MSR_RTS}, dw_msr>>))
    /\ UNCHANGED <<wq_pending, wq_queued, wq_canceling>>
    /\ UNCHANGED <<IER, CFG0, CFG1, BAUD>>
    /\ UNCHANGED <<localv, portv, envv>>
    /\ UNCHANGED <<after_stop, stop_seen, owed, tx_owed, tx_hist, rx_in, ctl_ret, ctl_op>>

mca_uart_delayed_work_proc == dw_lock \/ dw_wr_ier \/ dw_wr_cfg0


\* ---------------------------------------------------------------- TX engine
\* an entry test that does not ask whether the channel is stopped
tx_no_tty_or_empty == ~tty \/ uart_circ_empty

\* the early return of mca_uart_handle_tx
tx_nothing_to_do == ~tty \/ uart_circ_empty \/ tx_stopped

\* mca_uart_tx_work_proc: mutex_lock, then the entry test of
\* mca_uart_handle_tx; an early return unlocks at once, otherwise to_send is
\* read from the circular buffer
tx_lock ==
    /\ pc["tx"] = "lock"
    /\ mutex = "free"
    /\ IF tx_nothing_to_do
       THEN /\ pc' = [pc EXCEPT !["tx"] = "idle"]
            /\ RunEnds("tx")
            /\ tx_owed' = Settled(tx_owed)
            /\ UNCHANGED <<mutex, tx_to_send, tx_hist>>
       ELSE /\ mutex' = "tx"
            /\ tx_to_send' = uart_circ_chars_pending
            /\ pc' = [pc EXCEPT !["tx"] = "rd_txlvl"]
            /\ UNCHANGED <<wq_running, stop_inflight, tx_owed, tx_hist>>
    /\ UNCHANGED <<pending_work, wq_pending, wq_queued, wq_canceling>>
    /\ UNCHANGED <<hwv, portv, envv>>
    /\ UNCHANGED <<req_tmp, dw_ier_mask, dw_cfg0_mask, dw_msr, iir, irq_thr, has_errors, rxlen, rhr_failed, error_buf, tx_buf, tx_txlen, ctl_arg, has_rtscts>>
    /\ UNCHANGED <<after_stop, stop_seen, owed, hist, clean, dw_run, dw_owed, rx_in, ctl_ret, ctl_op>>

\* the end of a TX run: mutex_unlock
TxFinish ==
    /\ mutex' = "free"
    /\ pc' = [pc EXCEPT !["tx"] = "idle"]
    /\ tx_to_send' = 0
    /\ tx_txlen' = 0
    /\ RunEnds("tx")
    /\ tx_owed' = Settled(tx_owed)

TxFrame ==
    /\ UNCHANGED <<pending_work, wq_canceling>>
    /\ UNCHANGED <<hwv, envv>>
    /\ UNCHANGED <<req_tmp, dw_ier_mask, dw_cfg0_mask, dw_msr, iir, irq_thr, has_errors, rxlen, rhr_failed, error_buf, ctl_arg, has_rtscts>>
    /\ UNCHANGED <<tty, tx_stopped, xmit_head, rx_pushed, rx_flushes>>
    /\ UNCHANGED <<after_stop, stop_seen, owed, hist, clean, dw_run, dw_owed, rx_in, ctl_ret, ctl_op>>

\* regmap_read(MCA_REG_UART_TXLVL) completes: it read r, or it failed and
\* txlen is set to 0
tx_rd_txlvl(TxLevels) ==
    /\ pc["tx"] = "rd_txlvl"
    /\ \E ok \in BOOLEAN : \E r \in (IF ok THEN TxLevels ELSE {0}) :
          tx_txlen' = IF ok THEN r ELSE 0
    /\ pc' = [pc EXCEPT !["tx"] = "tx_copy"]
    /\ UNCHANGED <<mutex, wq_pending, wq_queued, wq_running, stop_inflight, tx_owed, tx_hist>>
    /\ UNCHANGED <<tx_buf, tx_to_send, icount, xmit_tail, wakeups>>
    /\ TxFrame

\* a headroom that sends nothing: only zero
tx_txlen_zero(txlen) == txlen = 0

\* the two tests of txlen that reschedule and return: zero (FIFO full) and
\* larger than sizeof(tx_buf)
tx_txlen_refused(txlen) == txlen = 0 \/ txlen > MCA_UART_TX_FIFO_SIZE

\* the whole pending count, whatever the headroom
tx_count_pending(to_send, txlen) == to_send

\* if (to_send > txlen) to_send = txlen
tx_count(to_send, txlen) == Min(to_send, txlen)

\* the tests of txlen, then the copy to the linear buffer: icount.tx and
\* xmit->tail advance by to_send
tx_copy ==
    /\ pc["tx"] = "tx_copy"
    /\ IF tx_txlen_refused(tx_txlen)
       THEN /\ Sched("tx")
            /\ TxFinish
            /\ UNCHANGED <<tx_buf, icount, xmit_tail, tx_hist>>
       ELSE LET n == tx_count(tx_to_send, tx_txlen)
            IN /\ tx_to_send' = n
               /\ icount' = [icount EXCEPT !.tx = @ + n]
               /\ tx_buf' = [i \in 1..n |-> (xmit_tail + i - 1) % XmitSize]
               /\ tx_hist' = [tx_hist EXCEPT !.taken = @ \o tx_buf']
               /\ xmit_tail' = (xmit_tail + n) % XmitSize
               /\ pc' = [pc EXCEPT !["tx"] = "wr_thr"]
               /\ UNCHANGED <<mutex, wq_pending, wq_queued, wq_running, stop_inflight, tx_owed, tx_txlen>>
    /\ UNCHANGED wakeups
    /\ TxFrame

\* what the device got from regmap_bulk_write(MCA_REG_UART_THR, tx_buf,
\* to_send): the bytes, or nothing when the write failed
thr_got(ok, bytes) == IF ok THEN bytes ELSE <<>>

\* regmap_bulk_write(MCA_REG_UART_THR, tx_buf, to_send) completes (a failure
\* is only logged), then the low-water test; ThrOks are the outcomes of the
\* write
tx_wr_thr(ThrOks) ==
    /\ pc["tx"] = "wr_thr"
    /\ \E ok \in ThrOks :
          tx_hist' = [tx_hist EXCEPT !.written = @ \o thr_got(ok, tx_buf)]
    /\ wakeups' = IF uart_circ_chars_pending < WAKEUP_CHARS THEN wakeups + 1 ELSE wakeups
    /\ tx_buf' = <<>>
    /\ TxFinish
    /\ UNCHANGED <<wq_pending, wq_queued, xmit_tail, icount>>
    /\ TxFrame

mca_uart_tx_work_proc(TxLevels, ThrOks) ==
    tx_lock \/ tx_rd_txlvl(TxLevels) \/ tx_copy \/ tx_wr_thr(ThrOks)


\* ---------------------------------------------------------------- RX engine
\* per-byte codes of MCA_REG_UART_RX_ERRORS
LsrCodes == {"NO_ERROR", "FRAMING_ERROR", "PARITY_ERROR", "FIFO_OR_ERROR",
             "BREAK", "HW_OR_ERROR"}

\* what the sink and the sysrq hook answer for one byte
ByteIn == [sysrq : BOOLEAN, accept : BOOLEAN]

\* a switch that classifies every byte as normal
tty_flag_all_normal(code) == "TTY_NORMAL"

\* the switch on error_buf[i]
tty_flag(code) ==
    CASE code = "FRAMING_ERROR" -> "TTY_FRAME"
      [] code = "PARITY_ERROR" -> "TTY_PARITY"
      [] code = "FIFO_OR_ERROR" -> "TTY_OVERRUN"
      [] code \in {"BREAK", "HW_OR_ERROR"} -> "TTY_BREAK"
      [] OTHER -> "TTY_NORMAL"

\* a switch that increments no counter
count_flag_none(ic, flag) == ic

count_flag(ic, flag) ==
    CASE flag = "TTY_FRAME" -> [ic EXCEPT !.frame = @ + 1]
      [] flag = "TTY_PARITY" -> [ic EXCEPT !.parity = @ + 1]
      [] flag = "TTY_OVERRUN" -> [ic EXCEPT !.overrun = @ + 1]
      [] flag = "TTY_BREAK" -> [ic EXCEPT !.brk = @ + 1]
      [] OTHER -> ic

\* an iteration that goes on to the next byte after the sink rejected one
rx_body_no_break(i, bytes, errs, he, acc) ==
    IF acc.broke \/ bytes[i].sysrq THEN acc
    ELSE LET flag == IF he THEN tty_flag(errs[i]) ELSE "TTY_NORMAL"
             ic == IF he THEN count_flag(acc.ic, flag) ELSE acc.ic
         IN IF ~bytes[i].accept
            THEN [pushed |-> acc.pushed, ic |-> [ic EXCEPT !.overrun = @ + 1], broke |-> FALSE]
            ELSE [pushed |-> Append(acc.pushed, <<i, flag>>), ic |-> ic, broke |-> FALSE]

\* one iteration of the for loop of mca_uart_handle_rx; acc holds the bytes
\* pushed so far, port->icount and whether the loop was left by break
rx_body(i, bytes, errs, he, acc) ==
    IF acc.broke \/ bytes[i].sysrq THEN acc
    ELSE LET flag == IF he THEN tty_flag(errs[i]) ELSE "TTY_NORMAL"
             ic == IF he THEN count_flag(acc.ic, flag) ELSE acc.ic
         IN IF ~bytes[i].accept
            THEN [pushed |-> acc.pushed, ic |-> [ic EXCEPT !.overrun = @ + 1], broke |-> TRUE]
            ELSE [pushed |-> Append(acc.pushed, <<i, flag>>), ic |-> ic, broke |-> FALSE]

\* the iterations i..n of the loop in order; a long run of iterations is
\* evaluated by halves, the iterations m+1..n starting from the result a of
\* the iterations i..m
RECURSIVE rx_loop(_, _, _, _, _, _)
rx_loop(i, n, bytes, errs, he, acc) ==
    IF i > n THEN acc
    ELSE IF n - i < MaxLevel
    THEN rx_loop(i + 1, n, bytes, errs, he, rx_body(i, bytes, errs, he, acc))
    ELSE LET m == (i + n) \div 2
         IN CHOOSE r \in {rx_loop(m + 1, n, bytes, errs, he, a) :
                              a \in {rx_loop(i, m, bytes, errs, he, acc)}} : TRUE

\* the end of the handler: the TX work is scheduled when THR is flagged,
\* then mutex_unlock
IrqFinish(thr) ==
    /\ IF thr THEN Sched("tx") ELSE UNCHANGED <<wq_pending, wq_queued>>
    /\ mutex' = "free"
    /\ pc' = [pc EXCEPT !["irq"] = "idle"]
    /\ irq_thr' = FALSE
    /\ has_errors' = FALSE
    /\ rxlen' = 0
    /\ rhr_failed' = 0
    /\ error_buf' = <<>>

\* the interrupt is raised and the threaded handler is called
irq_raise(RxCap) ==
    /\ pc["irq"] = "idle"
    /\ IER # {}
    /\ icount.rx < RxCap
    /\ calls < MaxCalls
    /\ calls' = calls + 1
    /\ pc' = [pc EXCEPT !["irq"] = "lock"]
    /\ UNCHANGED <<mutex, pending_work, wq_pending, wq_queued, wq_running, wq_canceling>>
    /\ UNCHANGED <<hwv, localv, portv, histv, started>>

irq_lock ==
    /\ pc["irq"] = "lock"
    /\ mutex = "free"
    /\ mutex' = "irq"
    /\ pc' = [pc EXCEPT !["irq"] = "rd_iir"]
    /\ UNCHANGED <<pending_work, wq_pending, wq_queued, wq_running, wq_canceling>>
    /\ UNCHANGED <<hwv, localv, portv, histv, envv>>

\* regmap_read(MCA_REG_UART_IIR) completes; on failure the handler returns
\* with the mutex still locked
irq_rd_iir ==
    /\ pc["irq"] = "rd_iir"
    /\ \E ok \in BOOLEAN : \E r \in (IF ok THEN SUBSET {IIR_RHR, IIR_THR, IIR_RLSE} ELSE {{}}) :
          /\ pc' = [pc EXCEPT !["irq"] = IF ok THEN "dispatch" ELSE "idle"]
          /\ iir' = r
    /\ UNCHANGED <<mutex, pending_work, wq_pending, wq_queued, wq_running, wq_canceling>>
    /\ UNCHANGED <<hwv, portv, envv, histv>>
    /\ UNCHANGED <<req_tmp, dw_ier_mask, dw_cfg0_mask, dw_msr, irq_thr, has_errors, rxlen, rhr_failed, error_buf, tx_buf, tx_to_send, tx_txlen, ctl_arg, has_rtscts>>

\* a handler that calls the RX engine whatever iir holds
irq_rx_always(v) == TRUE

\* iir & MCA_REG_UART_IIR_RHR
irq_rx_flagged(v) == IIR_RHR \in v

\* the tests of iir: mca_uart_handle_rx is entered with has_errors, and
\* without RHR the handler goes to the test of THR and ends
irq_dispatch ==
    /\ pc["irq"] = "dispatch"
    /\ iir' = {}
    /\ IF irq_rx_flagged(iir)
       THEN /\ has_errors' = (IIR_RLSE \in iir)
            /\ irq_thr' = (IIR_THR \in iir)
            /\ pc' = [pc EXCEPT !["irq"] = "rd_rxlvl"]
            /\ rx_pushed' = <<>>
            /\ rx_flushes' = 0
            /\ rx_in' = [level |-> 0, he |-> FALSE, errs |-> <<>>, bytes |-> <<>>, icount |-> icount, outcome |-> "running"]
            /\ UNCHANGED <<mutex, wq_pending, wq_queued, rxlen, rhr_failed, error_buf>>
       ELSE /\ IrqFinish(IIR_THR \in iir)
            /\ UNCHANGED <<rx_pushed, rx_flushes, rx_in>>
    /\ UNCHANGED <<pending_work, wq_running, wq_canceling>>
    /\ UNCHANGED <<hwv, envv>>
    /\ UNCHANGED <<req_tmp, dw_ier_mask, dw_cfg0_mask, dw_msr, tx_buf, tx_to_send, tx_txlen, ctl_arg, has_rtscts>>
    /\ UNCHANGED <<tty, tx_stopped, xmit_head, xmit_tail, icount, wakeups>>
    /\ UNCHANGED <<after_stop, stop_seen, stop_inflight, owed, hist, clean, dw_run, tx_owed, tx_hist, dw_owed, ctl_ret, ctl_op>>

RxFrame ==
    /\ UNCHANGED <<pending_work, wq_running, wq_canceling>>
    /\ UNCHANGED <<hwv, envv>>
    /\ UNCHANGED <<req_tmp, dw_ier_mask, dw_cfg0_mask, dw_msr, iir, tx_buf, tx_to_send, tx_txlen, ctl_arg, has_rtscts>>
    /\ UNCHANGED <<tty, tx_stopped, xmit_head, xmit_tail, wakeups>>
    /\ UNCHANGED <<after_stop, stop_seen, stop_inflight, owed, hist, clean, dw_run, tx_owed, tx_hist, dw_owed, ctl_ret, ctl_op>>

\* the contents a bulk read of n values may deliver: every combination for
\* the short batches, n equal values for the long ones
BulkRead(n, Vals) ==
    IF n <= MaxLevel THEN [1..n -> Vals] ELSE {[i \in 1..n |-> v] : v \in Vals}

\* rx_buf and error_buf hold MCA_UART_RX_FIFO_SIZE bytes: a longer bulk read
\* writes past the buffer on the stack of the handler
PastBuffer(n) == n > MCA_UART_RX_FIFO_SIZE

\* what a read past the buffer can do: nothing visible, or a smashed stack
SmashChoices(n) == IF PastBuffer(n) THEN BOOLEAN ELSE {FALSE}

\* the stack of the handler was overwritten: the thread does not return
RxSmashed ==
    /\ pc' = [pc EXCEPT !["irq"] = "smashed"]
    /\ rx_in' = [rx_in EXCEPT !.outcome = "smashed"]
    /\ UNCHANGED <<mutex, wq_pending, wq_queued, irq_thr, has_errors, rxlen, rhr_failed, error_buf>>
    /\ UNCHANGED <<icount, rx_pushed, rx_flushes>>

\* a return of mca_uart_handle_rx before the data read: nothing is pushed
\* and the sink is not flushed
RxReturn(outcome) ==
    /\ IrqFinish(irq_thr)
    /\ rx_in' = [rx_in EXCEPT !.outcome = outcome]
    /\ UNCHANGED <<icount, rx_pushed, rx_flushes>>

\* regmap_read(MCA_REG_UART_RXLVL) completes
rx_rd_rxlvl(Levels) ==
    /\ pc["irq"] = "rd_rxlvl"
    /\ \E ok \in BOOLEAN : \E r \in (IF ok THEN Levels ELSE {0}) :
          IF ~ok THEN RxReturn("early")
          ELSE IF r = 0 THEN RxReturn("empty")
          ELSE /\ rxlen' = r
               /\ rx_in' = [rx_in EXCEPT !.level = r]
               /\ pc' = [pc EXCEPT !["irq"] = IF has_errors THEN "rd_lsr" ELSE "rd_rhr"]
               /\ UNCHANGED <<mutex, wq_pending, wq_queued, irq_thr, has_errors, rhr_failed, error_buf>>
               /\ UNCHANGED <<icount, rx_pushed, rx_flushes>>
    /\ RxFrame

\* regmap_read(MCA_REG_UART_LSR) completes
rx_rd_lsr ==
    /\ pc["irq"] = "rd_lsr"
    /\ \E r \in {"fail", "zero", "nonzero"} :
          IF r = "fail" THEN RxReturn("early")
          ELSE /\ has_errors' = (r = "nonzero")
               /\ pc' = [pc EXCEPT !["irq"] = IF r = "nonzero" THEN "rd_errs" ELSE "rd_rhr"]
               /\ UNCHANGED <<mutex, wq_pending, wq_queued, irq_thr, rxlen, rhr_failed, error_buf>>
               /\ UNCHANGED <<icount, rx_pushed, rx_flushes, rx_in>>
    /\ RxFrame

\* regmap_bulk_read(MCA_REG_UART_RX_ERRORS, error_buf, rxlen) completes
rx_rd_errs(Codes) ==
    /\ pc["irq"] = "rd_errs"
    /\ \E ok \in BOOLEAN : \E r \in (IF ok THEN BulkRead(rxlen, Codes) ELSE {<<>>}) :
       \E smash \in SmashChoices(rxlen) :
          IF smash THEN RxSmashed
          ELSE IF ~ok THEN RxReturn("early")
          ELSE /\ error_buf' = r
               /\ pc' = [pc EXCEPT !["irq"] = "rd_rhr"]
               /\ UNCHANGED <<mutex, wq_pending, wq_queued, irq_thr, has_errors, rxlen, rhr_failed>>
               /\ UNCHANGED <<icount, rx_pushed, rx_flushes, rx_in>>
    /\ RxFrame

\* the data was read: icount.rx += rxlen, the loop, tty_flip_buffer_push
RxProcess(bytes) ==
    LET res == rx_loop(1, rxlen, bytes, error_buf, has_errors,
                       [pushed |-> <<>>, ic |-> [icount EXCEPT !.rx = @ + rxlen],
                        broke |-> FALSE])
    IN /\ icount' = res.ic
       /\ rx_pushed' = res.pushed
       /\ rx_flushes' = rx_flushes + 1
       /\ rx_in' = [rx_in EXCEPT !.he = has_errors, !.errs = error_buf,
                                 !.bytes = bytes, !.outcome = "processed"]
       /\ IrqFinish(irq_thr)

\* a handler that retries the data read after every failure
rx_after_failure_again(failed) == "rd_rhr2"

\* where the handler goes once the data read has failed for the failed-th
\* time: to the retry after the first failure, to exit: after the second
rx_after_failure(failed) == IF failed = 1 THEN "rd_rhr2" ELSE "exit"

\* regmap_bulk_read(MCA_REG_UART_RHR, rx_buf, rxlen) completes; the failure
\* that is not retried goes to exit: and flushes
RxDataRead(Bytes) ==
    \E ok \in BOOLEAN : \E r \in (IF ok THEN BulkRead(rxlen, Bytes) ELSE {<<>>}) :
    \E smash \in SmashChoices(rxlen) :
       IF smash THEN RxSmashed
       ELSE IF ok THEN RxProcess(r)
       ELSE IF rx_after_failure(rhr_failed + 1) = "rd_rhr2"
       THEN /\ pc' = [pc EXCEPT !["irq"] = "rd_rhr2"]
            /\ rhr_failed' = rhr_failed + 1
            /\ UNCHANGED <<mutex, wq_pending, wq_queued, irq_thr, has_errors, rxlen, error_buf>>
            /\ UNCHANGED <<icount, rx_pushed, rx_flushes, rx_in>>
       ELSE /\ IrqFinish(irq_thr)
            /\ rx_flushes' = rx_flushes + 1
            /\ rx_in' = [rx_in EXCEPT !.outcome = "aborted"]
            /\ UNCHANGED <<icount, rx_pushed>>

\* the first attempt of the data read completes
rx_rd_rhr(Bytes) ==
    /\ pc["irq"] = "rd_rhr"
    /\ RxDataRead(Bytes)
    /\ RxFrame

\* the retry completes
rx_rd_rhr2(Bytes) ==
    /\ pc["irq"] = "rd_rhr2"
    /\ RxDataRead(Bytes)
    /\ RxFrame

mca_uart_handle_rx(Levels, Codes, Bytes) ==
    \/ rx_rd_rxlvl(Levels)
    \/ rx_rd_lsr
    \/ rx_rd_errs(Codes)
    \/ rx_rd_rhr(Bytes)
    \/ rx_rd_rhr2(Bytes)

mca_uart_irq_handler(Levels, Codes, Bytes) ==
    \/ irq_lock
    \/ irq_rd_iir
    \/ irq_dispatch
    \/ mca_uart_handle_rx(Levels, Codes, Bytes)


\* ------------------------------------------------- port operations (ctl)
CtlFrame ==
    /\ UNCHANGED <<mutex, pending_work, wq_running>>
    /\ UNCHANGED <<req_tmp, dw_ier_mask, dw_cfg0_mask, dw_msr, iir, irq_thr, has_errors, rxlen, rhr_failed, error_buf, tx_buf, tx_to_send, tx_txlen, has_rtscts>>
    /\ UNCHANGED <<tx_stopped, xmit_head, xmit_tail, icount, rx_pushed, rx_flushes, wakeups>>
    /\ UNCHANGED <<owed, hist, clean, dw_run, tx_owed, tx_hist, dw_owed, rx_in>>

cfg_mask == {CFG0_CTX, CFG0_CRX, CFG0_TXEN, CFG0_RXEN}

ier_all == {IER_THR, IER_RHR, IER_RLSE}

\* a failed write of reg is recorded
CtlFailed(ok, reg) ==
    ctl_op' = IF ok THEN ctl_op ELSE [ctl_op EXCEPT !.failed = @ \cup {reg}]

\* mca_uart_startup is called on a port that is not started; the tty exists
su_call ==
    /\ pc["ctl"] = "idle"
    /\ ~started
    /\ calls < MaxCalls
    /\ calls' = calls + 1
    /\ pc' = [pc EXCEPT !["ctl"] = "su_cfg0"]
    /\ tty' = TRUE
    /\ after_stop' = FALSE
    /\ ctl_ret' = "none"
    /\ ctl_op' = [op |-> "startup", failed |-> {}]
    /\ UNCHANGED <<wq_pending, wq_queued, wq_canceling, hwv, ctl_arg, started, stop_seen, stop_inflight>>
    /\ CtlFrame

\* a startup that reports success whatever regmap returned
su_ret_ok(ok) == "ok"

\* return ret: 0 or the error of the failed regmap call
su_ret(ok) == IF ok THEN "ok" ELSE "error"

\* regmap_update_bits(MCA_REG_UART_CFG0, cfg_mask, cfg_mask) completes
su_cfg0 ==
    /\ pc["ctl"] = "su_cfg0"
    /\ \E ok \in BOOLEAN :
          /\ CtlFailed(ok, "CFG0")
          /\ IF ok
             THEN /\ CFG0' = update_bits(CFG0, cfg_mask, cfg_mask)
                  /\ pc' = [pc EXCEPT !["ctl"] = "su_ier"]
                  /\ UNCHANGED ctl_ret
             ELSE /\ pc' = [pc EXCEPT !["ctl"] = "idle"]
                  /\ ctl_ret' = su_ret(ok)
                  /\ UNCHANGED CFG0
    /\ UNCHANGED <<wq_pending, wq_queued, wq_canceling, IER, CFG1, BAUD, MSR, ctl_arg>>
    /\ UNCHANGED <<tty, envv, after_stop, stop_seen, stop_inflight>>
    /\ CtlFrame

\* regmap_update_bits(MCA_REG_UART_IER, ier_mask, ier_mask) completes
su_ier ==
    /\ pc["ctl"] = "su_ier"
    /\ \E ok \in BOOLEAN :
          /\ CtlFailed(ok, "IER")
          /\ IER' = IF ok THEN update_bits(IER, ier_all, ier_all) ELSE IER
          /\ ctl_ret' = su_ret(ok)
          /\ started' = (su_ret(ok) = "ok")
    /\ pc' = [pc EXCEPT !["ctl"] = "idle"]
    /\ UNCHANGED <<wq_pending, wq_queued, wq_canceling, CFG0, CFG1, BAUD, MSR, ctl_arg>>
    /\ UNCHANGED <<tty, calls, after_stop, stop_seen, stop_inflight>>
    /\ CtlFrame

mca_uart_startup == su_call \/ su_cfg0 \/ su_ier

\* mca_uart_shutdown is called on a started port
sd_call ==
    /\ pc["ctl"] = "idle"
    /\ started
    /\ calls < MaxCalls
    /\ calls' = calls + 1
    /\ pc' = [pc EXCEPT !["ctl"] = "sd_cfg0"]
    /\ stop_inflight' = {w \in Works : wq_running[w] > 0}
    /\ stop_seen' = {w \in Works : wq_running[w] > 0}
    /\ ctl_ret' = "none"
    /\ ctl_op' = [op |-> "shutdown", failed |-> {}]
    /\ UNCHANGED <<wq_pending, wq_queued, wq_canceling, hwv, ctl_arg, tty, started, after_stop>>
    /\ CtlFrame

\* regmap_update_bits(MCA_REG_UART_CFG0, cfg_mask, CTX | CRX) completes
sd_cfg0 ==
    /\ pc["ctl"] = "sd_cfg0"
    /\ \E ok \in BOOLEAN :
          /\ CtlFailed(ok, "CFG0")
          /\ CFG0' = IF ok THEN update_bits(CFG0, cfg_mask, {CFG0_CTX, CFG0_CRX}) ELSE CFG0
    /\ pc' = [pc EXCEPT !["ctl"] = "sd_ier"]
    /\ UNCHANGED <<wq_pending, wq_queued, wq_canceling, IER, CFG1, BAUD, MSR, ctl_arg>>
    /\ UNCHANGED <<tty, envv, after_stop, stop_seen, stop_inflight, ctl_ret>>
    /\ CtlFrame

\* cancel_work_sync(w), first half: a queued instance is removed and the
\* work is marked canceling, so that it cannot be queued meanwhile
CancelGrab(w) ==
    /\ wq_canceling' = [wq_canceling EXCEPT ![w] = TRUE]
    /\ wq_queued' = [wq_queued EXCEPT ![w] = 0]
    /\ wq_pending' = [wq_pending EXCEPT ![w] = FALSE]

\* regmap_write(MCA_REG_UART_IER, 0) completes; cancel_work_sync(&tx_work)
\* begins
sd_ier ==
    /\ pc["ctl"] = "sd_ier"
    /\ \E ok \in BOOLEAN :
          /\ CtlFailed(ok, "IER")
          /\ IER' = IF ok THEN {} ELSE IER
    /\ CancelGrab("tx")
    /\ pc' = [pc EXCEPT !["ctl"] = "sd_wait_tx"]
    /\ UNCHANGED <<CFG0, CFG1, BAUD, MSR, ctl_arg>>
    /\ UNCHANGED <<tty, envv, after_stop, stop_seen, stop_inflight, ctl_ret>>
    /\ CtlFrame

\* cancel_work without the wait for a running instance
cancel_returns_at_once(w) == TRUE

\* cancel_work_sync(w) returns once no instance of w is executing
cancel_work_sync_returns(w) == wq_running[w] = 0

\* cancel_work_sync(&tx_work) returns once no instance is executing;
\* cancel_work_sync(&delayed_work) begins
sd_wait_tx ==
    /\ pc["ctl"] = "sd_wait_tx"
    /\ cancel_work_sync_returns("tx")
    /\ wq_canceling' = [wq_canceling EXCEPT !["tx"] = FALSE, !["dw"] = TRUE]
    /\ wq_queued' = [wq_queued EXCEPT !["dw"] = 0]
    /\ wq_pending' = [wq_pending EXCEPT !["dw"] = FALSE]
    /\ pc' = [pc EXCEPT !["ctl"] = "sd_wait_dw"]
    /\ UNCHANGED <<hwv, ctl_arg>>
    /\ UNCHANGED <<tty, envv, after_stop, stop_seen, stop_inflight, ctl_ret, ctl_op>>
    /\ CtlFrame

\* cancel_work_sync(&delayed_work) returns, and mca_uart_shutdown with it
sd_wait_dw ==
    /\ pc["ctl"] = "sd_wait_dw"
    /\ cancel_work_sync_returns("dw")
    /\ wq_canceling' = [wq_canceling EXCEPT !["dw"] = FALSE]
    /\ pc' = [pc EXCEPT !["ctl"] = "idle"]
    /\ started' = FALSE
    /\ after_stop' = TRUE
    /\ ctl_ret' = "void"
    /\ UNCHANGED ctl_op
    /\ UNCHANGED <<wq_pending, wq_queued, hwv, ctl_arg>>
    /\ UNCHANGED <<tty, calls, stop_seen, stop_inflight>>
    /\ CtlFrame

mca_uart_shutdown == sd_call \/ sd_cfg0 \/ sd_ier \/ sd_wait_tx \/ sd_wait_dw

\* after shutdown the serial core drops the tty (tty_port_tty_set(port, NULL))
tty_port_tty_set_null ==
    /\ pc["ctl"] = "idle"
    /\ after_stop
    /\ tty
    /\ tty' = FALSE
    /\ UNCHANGED <<progv, hwv, localv, envv, histv>>
    /\ UNCHANGED <<tx_stopped, xmit_head, xmit_tail, icount, rx_pushed, rx_flushes, wakeups>>

\* the baud rates with a case in the switch
SupportedBauds == {1200, 2400, 4800, 9600, 19200, 38400, 57600, 115200, 230400}

\* a switch without the default case
baud_reg_val_no_default(baudrate) == MCA_REG_UART_BAUD(baudrate)

\* the switch on baudrate
baud_reg_val(baudrate) ==
    CASE baudrate = 1200 -> MCA_REG_UART_BAUD(1200)
      [] baudrate = 2400 -> MCA_REG_UART_BAUD(2400)
      [] baudrate = 4800 -> MCA_REG_UART_BAUD(4800)
      [] baudrate = 9600 -> MCA_REG_UART_BAUD(9600)
      [] baudrate = 19200 -> MCA_REG_UART_BAUD(19200)
      [] baudrate = 38400 -> MCA_REG_UART_BAUD(38400)
      [] baudrate = 57600 -> MCA_REG_UART_BAUD(57600)
      [] baudrate = 115200 -> MCA_REG_UART_BAUD(115200)
      [] baudrate = 230400 -> MCA_REG_UART_BAUD(230400)
      [] OTHER -> MCA_UART_DEFAULT_BAUD_REG

\* the translation of c_cflag into MCA_REG_UART_CFG1
cfg1_of(cflag) ==
    LET c == IF has_rtscts = {} THEN cflag \ {"CRTSCTS"} ELSE cflag
    IN (IF "CSTOPB" \in c THEN {"CFG1_TWO_STOPBITS"} ELSE {}) \cup
       (IF "PARENB" \in c THEN {"CFG1_PARITY_EN"} ELSE {}) \cup
       (IF "PARODD" \in c THEN {"CFG1_PARITY_ODD"} ELSE {}) \cup
       (IF "CRTSCTS" \in c /\ "CTS" \in has_rtscts THEN {"CFG1_CTS_EN"} ELSE {}) \cup
       (IF "CRTSCTS" \in c /\ "RTS" \in has_rtscts THEN {"CFG1_RTS_EN"} ELSE {})

\* mca_uart_set_termios is called on a started port
st_call(Cflags, Bauds) ==
    /\ pc["ctl"] = "idle"
    /\ started
    /\ calls < MaxCalls
    /\ calls' = calls + 1
    /\ \E cflag \in Cflags, baudrate \in Bauds :
          ctl_arg' = [cfg1 |-> cfg1_of(cflag), rate |-> baudrate, baud |-> baud_reg_val(baudrate)]
    /\ pc' = [pc EXCEPT !["ctl"] = "st_cfg1"]
    /\ ctl_ret' = "none"
    /\ ctl_op' = [op |-> "set_termios", failed |-> {}]
    /\ UNCHANGED <<wq_pending, wq_queued, wq_canceling, hwv, tty, started, after_stop, stop_seen, stop_inflight>>
    /\ CtlFrame

\* mca_uart_set_termios returns void, after a failed write as well
st_ret(ok) == "void"

\* regmap_write(MCA_REG_UART_CFG1, cfg1) completes
st_cfg1 ==
    /\ pc["ctl"] = "st_cfg1"
    /\ \E ok \in BOOLEAN :
          /\ CtlFailed(ok, "CFG1")
          /\ IF ok
             THEN /\ CFG1' = ctl_arg.cfg1
                  /\ pc' = [pc EXCEPT !["ctl"] = "st_baud"]
                  /\ UNCHANGED ctl_ret
             ELSE /\ pc' = [pc EXCEPT !["ctl"] = "idle"]
                  /\ ctl_ret' = st_ret(ok)
                  /\ UNCHANGED CFG1
    /\ UNCHANGED <<wq_pending, wq_queued, wq_canceling, IER, CFG0, BAUD, MSR, ctl_arg>>
    /\ UNCHANGED <<tty, envv, after_stop, stop_seen, stop_inflight>>
    /\ CtlFrame

\* regmap_write(MCA_REG_UART_BAUD, baud_reg_val) completes
st_baud ==
    /\ pc["ctl"] = "st_baud"
    /\ \E ok \in BOOLEAN :
          /\ CtlFailed(ok, "BAUD")
          /\ BAUD' = IF ok THEN ctl_arg.baud ELSE BAUD
          /\ ctl_ret' = st_ret(ok)
    /\ pc' = [pc EXCEPT !["ctl"] = "idle"]
    /\ UNCHANGED <<wq_pending, wq_queued, wq_canceling, IER, CFG0, CFG1, MSR, ctl_arg>>
    /\ UNCHANGED <<tty, envv, after_stop, stop_seen, stop_inflight>>
    /\ CtlFrame

mca_uart_set_termios(Cflags, Bauds) == st_call(Cflags, Bauds) \/ st_cfg1 \/ st_baud

\* ------------------------------------------------------------ specification
\* inputs of the concurrency specification
ConcLevels == {0, 1}
ConcCodes == {"NO_ERROR"}
ConcBytes == {[sysrq |-> FALSE, accept |-> TRUE]}
ConcTxLevels == {0, 2, MCA_UART_TX_FIFO_SIZE + 1}
ConcCflags == {{"CRTSCTS"}}
ConcBauds == {115200}
ConcWrites == {2}

Next ==
    \/ mca_uart_stop_tx
    \/ mca_uart_stop_rx
    \/ mca_uart_start_tx
    \/ uart_write(ConcWrites)
    \/ mca_uart_startup
    \/ mca_uart_shutdown
    \/ tty_port_tty_set_null
    \/ mca_uart_set_termios(ConcCflags, ConcBauds)
    \/ irq_raise(MaxCalls)
    \/ mca_uart_irq_handler(ConcLevels, ConcCodes, ConcBytes)
    \/ \E w \in Works : process_one_work(w)
    \/ mca_uart_tx_work_proc(ConcTxLevels, {TRUE})
    \/ mca_uart_delayed_work_proc

Spec == Init /\ [][Next]_vars

\* the requests and the threads that serve them, shutdown never called; the
\* kworkers and the IRQ thread are scheduled fairly, and so is the CPU that
\* runs a request
LiveNext ==
    \/ mca_uart_stop_tx
    \/ mca_uart_stop_rx
    \/ mca_uart_start_tx
    \/ uart_write(ConcWrites)
    \/ mca_uart_startup
    \/ irq_raise(MaxCalls)
    \/ mca_uart_irq_handler(ConcLevels, ConcCodes, ConcBytes)
    \/ \E w \in Works : process_one_work(w)
    \/ mca_uart_tx_work_proc(ConcTxLevels, {TRUE})
    \/ mca_uart_delayed_work_proc

LiveSpec ==
    /\ Init
    /\ [][LiveNext]_vars
    /\ \A w \in Works : WF_vars(process_one_work(w))
    /\ WF_vars(mca_uart_tx_work_proc(ConcTxLevels, {TRUE}))
    /\ WF_vars(mca_uart_delayed_work_proc)
    /\ WF_vars(mca_uart_irq_handler(ConcLevels, ConcCodes, ConcBytes))
    /\ WF_vars(mca_uart_startup)
    /\ WF_vars(StopStore(WORK_STOP_TX, "stx_store", "stx_sched") \/ StopSched("stx_sched"))
    /\ WF_vars(StopStore(WORK_STOP_RX, "srx_store", "srx_sched") \/ StopSched("srx_sched"))

\* the device raises the THR interrupt: the FIFO has room and IER enables it
thr_raise ==
    /\ pc["irq"] = "idle"
    /\ IER_THR \in IER
    /\ pc' = [pc EXCEPT !["irq"] = "lock"]
    /\ UNCHANGED <<mutex, pending_work, wq_pending, wq_queued, wq_running, wq_canceling>>
    /\ UNCHANGED <<hwv, localv, portv, histv, envv>>

\* the handler, for interrupts that flag THR alone and a read of IIR that
\* does not fail
DrainIrq ==
    \/ thr_raise
    \/ irq_lock
    \/ irq_rd_iir /\ iir' = {IIR_THR}
    \/ irq_dispatch

\* the TX work with a FIFO that always has room for all but one of the
\* bytes the circular buffer can hold, and a read of TXLVL that does not
\* fail
DrainTx ==
    /\ mca_uart_tx_work_proc({XmitSize - 2}, {TRUE})
    /\ pc["tx"] = "rd_txlvl" => tx_txlen' # 0

\* the control worker with writes that do not fail
DrainDw ==
    /\ mca_uart_delayed_work_proc
    /\ pc["dw"] = "wr_ier" => IER' = update_bits(IER, dw_ier_mask, {})
    /\ pc["dw"] = "wr_cfg0" => CFG0' = update_bits(CFG0, dw_cfg0_mask, cfg0_val)

\* transmission with a device that works: no regmap call fails and the THR
\* interrupt is raised whenever IER enables it; the buffer is filled,
\* stop_tx is requested on the started port, and start_tx once stop_tx has
\* returned (its worker is owed or has run)
DrainNext ==
    \/ mca_uart_startup /\ ctl_op'.failed = {}
    \/ uart_write({XmitSize - 1})
    \/ mca_uart_stop_tx /\ (pc["req"] = "idle" => started)
    \/ mca_uart_start_tx /\ started /\ (dw_owed # "no" \/ dw_run.done)
    \/ \E w \in Works : process_one_work(w)
    \/ DrainTx
    \/ DrainDw
    \/ DrainIrq

\* the kworkers, the IRQ thread and the device are scheduled fairly, and so
\* is the CPU that runs startup or a request; a thread that waits in
\* mutex_lock gets the mutex in the end however often others take it
DrainSpec ==
    /\ Init
    /\ [][DrainNext]_vars
    /\ \A w \in Works : WF_vars(process_one_work(w))
    /\ SF_vars(DrainTx)
    /\ SF_vars(DrainDw)
    /\ SF_vars(DrainIrq)
    /\ WF_vars(mca_uart_startup /\ ctl_op'.failed = {})
    /\ WF_vars(StopStore(WORK_STOP_TX, "stx_store", "stx_sched") \/ StopSched("stx_sched"))

\* the receive path alone: the port is started and interrupts arrive, with
\* every FIFO level, error vector and answer of the sink and the sysrq hook
RxLevels == 0..MaxLevel

\* the error codes that differ in how a byte is counted: none, an error
\* other than overrun, the FIFO overrun
RxCodes == {"NO_ERROR", "FRAMING_ERROR", "FIFO_OR_ERROR"}

RxBytes == {[sysrq |-> FALSE, accept |-> TRUE],
            [sysrq |-> FALSE, accept |-> FALSE],
            [sysrq |-> TRUE, accept |-> TRUE]}

\* the interrupts of this specification flag RHR and RLSE, not THR
RxNext ==
    \/ mca_uart_startup
    \/ irq_raise(MaxRx)
    \/ mca_uart_irq_handler(RxLevels, RxCodes, RxBytes) /\ IIR_THR \notin iir'

RxSpec == Init /\ [][RxNext]_vars

\* the transmit path alone: the line discipline writes, start_tx is
\* requested and the TX work runs, with every headroom the hardware may
\* report, valid or not
TxHeadrooms == (0..MaxLevel) \cup {MCA_UART_TX_FIFO_SIZE, MCA_UART_TX_FIFO_SIZE + 1, 200}

TxWrites == 1..(XmitSize - 1)

\* flow control stops or releases the channel: what uart_tx_stopped(port)
\* answers changes
tty_flow_change ==
    /\ tty
    /\ calls < MaxCalls
    /\ calls' = calls + 1
    /\ tx_stopped' = ~tx_stopped
    /\ UNCHANGED <<progv, hwv, localv, histv, started>>
    /\ UNCHANGED <<tty, xmit_head, xmit_tail, icount, rx_pushed, rx_flushes, wakeups>>

TxNext ==
    \/ mca_uart_startup
    \/ tty_flow_change
    \/ uart_write(TxWrites)
    \/ mca_uart_start_tx
    \/ process_one_work("tx")
    \/ mca_uart_tx_work_proc(TxHeadrooms, BOOLEAN)

\* the port operations alone, with baud rates with and without a case in the
\* switch
CtlCflags == {{}, {"CSTOPB", "PARENB", "CRTSCTS"}}

CtlBauds == SupportedBauds \cup {300, 4000}

CtlNext ==
    \/ mca_uart_startup
    \/ mca_uart_shutdown
    \/ mca_uart_set_termios(CtlCflags, CtlBauds)

CtlSpec == Init /\ [][CtlNext]_vars

\* the control worker entered with each value of the bitmask: the stop
\* requests queue it, the RTS bits are in pending_work from the start
DwNext ==
    \/ mca_uart_startup
    \/ mca_uart_stop_tx
    \/ mca_uart_stop_rx
    \/ process_one_work("dw")
    \/ mca_uart_delayed_work_proc
    \/ dw_wr_msr

DwInit == InitRest /\ pending_work \in SUBSET {WORK_SET_RTS, WORK_CLEAR_RTS}

DwSpec == DwInit /\ [][DwNext]_vars

TxSpec == Init /\ [][TxNext]_vars

\* the receive path with every error code, the sink accepting every byte
\* and no byte consumed by the sysrq hook
ClassBytes == {[sysrq |-> FALSE, accept |-> TRUE]}

ClassNext ==
    \/ mca_uart_startup
    \/ irq_raise(MaxRx)
    \/ mca_uart_irq_handler(RxLevels, LsrCodes, ClassBytes)

ClassSpec == Init /\ [][ClassNext]_vars

\* the receive path with levels up to and beyond the size of the buffers
OverLevels == {0, 1, MCA_UART_RX_FIFO_SIZE, MCA_UART_RX_FIFO_SIZE + 1}

OverNext ==
    \/ mca_uart_startup
    \/ irq_raise(MaxRx)
    \/ mca_uart_irq_handler(OverLevels, RxCodes, ClassBytes)

OverSpec == Init /\ [][OverNext]_vars


\* ------------------------------------------------------------------ claims
LockedContexts == {"ctl", "irq", "tx", "dw"}

SdPcs == {"sd_cfg0", "sd_ier", "sd_wait_tx", "sd_wait_dw"}

\* C1: at most one of the IRQ dispatcher, the TX engine, the control worker
\* and the port operations startup/shutdown/set_termios is inside a bus
\* access at any time (each holds the mutex for the whole of its access).
C1_BusAccessExclusive ==
    Cardinality({p \in LockedContexts : InBus(p)}) <= 1

\* C2: the mutex is held only by an invocation that is in progress: when
\* the IRQ dispatcher, a TX run or a worker run has returned, it has
\* released the mutex, on every path.
C2_LockReleasedOnReturn ==
    mutex # "free" => pc[mutex] \notin {"idle", "lock"}

\* C3: an intent stored by stop_tx/stop_rx is never lost: until a worker run
\* takes it, it stays in pending_work (also when it is stored while a run
\* is in progress).
C3_NoLostIntent == owed \subseteq pending_work

\* the writes the worker issues for a set of intents
ControlWrites(S) ==
    IF S = {} THEN <<>>
    ELSE <<(<<"IER", ier_mask_of(S), {}>>),
           (<<"CFG0", cfg0_mask_of(S), cfg0_val \cap cfg0_mask_of(S)>>)>>

\* C4: when all requests were issued before a worker run started, the
\* register writes of the run are those of one application of the OR of
\* the requested stop intents (start_tx adds none), and pending_work is
\* empty after the run.
C4_Coalescing ==
    (dw_run.done /\ dw_run.clean) =>
        /\ dw_run.writes = ControlWrites(dw_run.intents)
        /\ dw_run.after = {}

\* a run that applied both stop intents, requested by separate calls along
\* with a start_tx
C4_Witness ==
    /\ dw_run.done /\ dw_run.clean
    /\ dw_run.intents = {WORK_STOP_RX, WORK_STOP_TX}
    /\ Len(dw_run.writes) = 2
    /\ tx_owed # "no"
    /\ calls >= 3

\* C5: after shutdown has returned and until the next startup, the TX
\* engine, the control worker and the IRQ dispatcher perform no bus access.
C5_NoBusAccessAfterStop ==
    after_stop => \A p \in {"tx", "dw", "irq"} : ~InBus(p)

\* C6 as stated: shutdown performs its register writes only once the work
\* runs that were in progress when it was called have ended.
C6_WritesAfterRunsEnd ==
    pc["ctl"] \in {"sd_cfg0", "sd_ier"} => stop_inflight = {}

\* C6 as amended: shutdown writes its registers first and then cancels and
\* waits: it does not return before the runs that were in progress when it
\* was called have ended, a work item is not queued while it is being
\* cancelled, and the register writes precede the cancellation.
C6_ReturnsAfterRunsEnd ==
    /\ pc["ctl"] \notin SdPcs => stop_inflight = {}
    /\ pc["ctl"] = "sd_wait_dw" => "tx" \notin stop_inflight
    /\ \A w \in Works : wq_canceling[w] => wq_queued[w] = 0 /\ ~wq_pending[w]
    /\ pc["ctl"] \in {"sd_cfg0", "sd_ier"} => \A w \in Works : ~wq_canceling[w]

\* shutdown has returned, and a run was in progress when it was called
C6_Witness == after_stop /\ stop_seen # {} /\ pc["ctl"] = "idle"

\* C7: each work item has at most one queued and at most one executing
\* instance, whoever schedules it and however often.
C7_SingleInstance ==
    \A w \in Works :
        /\ wq_queued[w] <= 1
        /\ wq_running[w] <= 1
        /\ wq_pending[w] <=> wq_queued[w] = 1

\* the TX work is queued again while an instance executes, after several
\* requests
C7_Witness ==
    /\ wq_queued["tx"] = 1
    /\ wq_running["tx"] = 1
    /\ pc["tx"] = "rd_txlvl"
    /\ calls >= 3

\* the steps of a request that is in progress
ReqSteps ==
    \/ StopStore(WORK_STOP_TX, "stx_store", "stx_sched")
    \/ StopSched("stx_sched")
    \/ StopStore(WORK_STOP_RX, "srx_store", "srx_sched")
    \/ StopSched("srx_sched")

\* a step taken by stop_tx, stop_rx or start_tx
ReqStepTaken ==
    \/ pc'["req"] # pc["req"]
    \/ calls' = calls + 1 /\ pc' = pc /\ xmit_head' = xmit_head

\* C9: stop_tx, stop_rx and start_tx never take the mutex and never access
\* the bus: a request in progress can always take its next step, whoever
\* holds the mutex, and a step of a request changes nothing but
\* pending_work (by OR-ing its bit into the value it loaded) and the
\* queueing of a work item.
C9_RequestsLockFree ==
    /\ [](pc["req"] # "idle" => ENABLED ReqSteps)
    /\ [][ReqStepTaken =>
            /\ UNCHANGED <<mutex, hwv, wq_running, wq_canceling>>
            /\ UNCHANGED <<pc["ctl"], pc["irq"], pc["tx"], pc["dw"]>>
            /\ UNCHANGED <<tty, tx_stopped, xmit_head, xmit_tail, icount>>
            /\ pc'["req"] \notin BusPcs
            /\ \/ pending_work' = pending_work
               \/ pc["req"] = "stx_store" /\ pending_work' = req_tmp \cup {WORK_STOP_TX}
               \/ pc["req"] = "srx_store" /\ pending_work' = req_tmp \cup {WORK_STOP_RX}
            /\ \A w \in Works : wq_queued'[w] >= wq_queued[w]]_vars

\* a stop request has stored its bit while another context holds the mutex
C9_Witness ==
    /\ pc["req"] = "stx_sched"
    /\ mutex # "free"
    /\ WORK_STOP_TX \in pending_work

\* C8 as stated: with the work queue scheduled fairly and shutdown never
\* called, every start_tx is followed by a TX run that starts after it and
\* returns with its work done, and every stop_tx/stop_rx by such a run of
\* the control worker.
C8_EveryRequestServed ==
    /\ (tx_owed = "owed") ~> (tx_owed = "no")
    /\ (dw_owed = "owed") ~> (dw_owed = "no")

\* the invocation of the RX engine that was last started
RxOverruns == icount.overrun - rx_in.icount.overrun

RxDone == rx_in.level > 0 /\ rx_in.outcome \in {"processed", "early"}

\* C10 as stated: an invocation that read a nonzero level and did not abort
\* on the second failure of the data read forwarded and counted as overrun
\* as many bytes as the level.
C10_ForwardedPlusOverrunsIsLevel ==
    RxDone => Len(rx_pushed) + RxOverruns = rx_in.level

\* the bytes the sysrq hook did not consume
RxOffered == {i \in 1..rx_in.level : ~rx_in.bytes[i].sysrq}

\* the first byte the sink rejected, level + 1 when there is none
RxFirstRejected ==
    LET R == {i \in RxOffered : ~rx_in.bytes[i].accept}
    IN IF R = {} THEN rx_in.level + 1
       ELSE CHOOSE i \in R : \A j \in R : i <= j

\* the bytes offered to the sink whose error code is the FIFO overrun
RxFifoOverruns ==
    {i \in RxOffered : /\ i <= RxFirstRejected
                        /\ rx_in.he
                        /\ rx_in.errs[i] = "FIFO_OR_ERROR"}

\* C10 as amended: an invocation that read the data forwards the bytes before
\* the first rejected one except those the sysrq hook consumed, and counts
\* one overrun for the rejected byte (none for the bytes after it) and one
\* for each offered byte whose error code is the FIFO overrun, a byte that
\* is forwarded as well when accepted; an invocation that returned on a
\* failed read of the line status or of the error vector forwards and
\* counts nothing.
C10_RxAccounting ==
    /\ (rx_in.level > 0 /\ rx_in.outcome = "processed") =>
          /\ Len(rx_pushed) = Cardinality({i \in RxOffered : i < RxFirstRejected})
          /\ RxOverruns = Cardinality(RxFifoOverruns)
                            + (IF RxFirstRejected <= rx_in.level THEN 1 ELSE 0)
    /\ (rx_in.level > 0 /\ rx_in.outcome = "early") =>
          /\ Len(rx_pushed) = 0
          /\ RxOverruns = 0

\* a batch of three bytes: the first consumed by the sysrq hook, the second
\* forwarded with the FIFO overrun code, the third rejected
C10_Witness ==
    /\ rx_in.outcome = "processed"
    /\ rx_in.level = 3
    /\ rx_in.he
    /\ rx_in.bytes[1].sysrq
    /\ rx_in.bytes[2].accept /\ ~rx_in.bytes[2].sysrq
    /\ rx_in.errs[2] = "FIFO_OR_ERROR"
    /\ ~rx_in.bytes[3].accept /\ ~rx_in.bytes[3].sysrq
    /\ Len(rx_pushed) = 1
    /\ RxOverruns = 2

\* the step of a TX run that follows the read of the headroom
TxCopyStep == pc["tx"] = "tx_copy" /\ pc'["tx"] # "tx_copy"

\* what a step adds to xmit->tail (modulo the buffer size) and to icount.tx
TailAdvance == (xmit_tail' + XmitSize - xmit_tail) % XmitSize

TxCounted == icount'.tx - icount.tx

\* C11 as stated: a TX run that read the headroom advances the tail and the
\* transmitted-byte counter by min(pending, min(headroom, 128)), pending
\* being the count read at entry.
C11_AdvanceIsMinOfThree ==
    [][TxCopyStep =>
          LET n == Min(tx_to_send, Min(tx_txlen, MCA_UART_TX_FIFO_SIZE))
          IN TailAdvance = n /\ TxCounted = n]_vars

\* C11 as amended: the advance of the tail and of the counter is
\* min(pending, headroom) when the headroom is in 1..128 and zero when it is
\* 0, unreadable or larger than 128; no other step of a TX run (the entry
\* test, the read, the bulk write) moves the tail or the counter.
C11_TxAdvance ==
    /\ [][TxCopyStep =>
            LET n == IF tx_txlen \in 1..MCA_UART_TX_FIFO_SIZE
                     THEN (IF tx_to_send < tx_txlen THEN tx_to_send ELSE tx_txlen)
                     ELSE 0
            IN TailAdvance = n /\ TxCounted = n]_vars
    /\ [][(pc'["tx"] # pc["tx"] /\ ~TxCopyStep) =>
            xmit_tail' = xmit_tail /\ icount'.tx = icount.tx]_vars

\* a run whose headroom (2) was smaller than the pending count: two bytes
\* are staged and at least one stays in the buffer
C11_Witness ==
    /\ pc["tx"] = "wr_thr"
    /\ tx_txlen = 2
    /\ Len(tx_buf) = 2
    /\ icount.tx >= 2
    /\ uart_circ_chars_pending >= 1

\* a TX run found the headroom unreadable (txlen set to 0), zero or larger
\* than 128
TxRefusedStep == TxCopyStep /\ (tx_txlen = 0 \/ tx_txlen > MCA_UART_TX_FIFO_SIZE)

\* such a run makes no bulk write, leaves the tail and the counters
\* unchanged and returns with the mutex released
TxRefusedEffect ==
    /\ xmit_tail' = xmit_tail
    /\ icount' = icount
    /\ tx_buf' = tx_buf
    /\ pc'["tx"] = "idle"
    /\ mutex' = "free"

TxWorkQueued == wq_pending'["tx"] /\ wq_queued'["tx"] = 1

\* C12 as stated: a TX run that finds the headroom unreadable, zero or
\* larger than 128 makes no bulk write, leaves the tail and the counter
\* unchanged, and returns with the TX work scheduled to run again.
C12_RefusedHeadroomReschedules ==
    [][TxRefusedStep => (TxRefusedEffect /\ TxWorkQueued)]_vars

\* C12 as amended: the same, except that the TX work is not queued again
\* when shutdown is cancelling it at that moment.
C12_RefusedHeadroom ==
    [][TxRefusedStep =>
          /\ TxRefusedEffect
          /\ (wq_canceling["tx"] \/ TxWorkQueued)
          /\ (wq_canceling["tx"] => wq_queued'["tx"] = 0)]_vars

\* the TX work is queued although every start_tx was served: the last run
\* rescheduled itself, with the written bytes still in the buffer
C12_Witness ==
    /\ pc["tx"] = "idle"
    /\ wq_running["tx"] = 0
    /\ wq_queued["tx"] = 1
    /\ tx_owed = "no"
    /\ uart_circ_chars_pending > 0
    /\ icount.tx = 0
    /\ xmit_tail = 0

\* the classification the error codes stand for
CodeClass(code) ==
    IF code = "FRAMING_ERROR" THEN "TTY_FRAME"
    ELSE IF code = "PARITY_ERROR" THEN "TTY_PARITY"
    ELSE IF code = "FIFO_OR_ERROR" THEN "TTY_OVERRUN"
    ELSE IF code = "BREAK" \/ code = "HW_OR_ERROR" THEN "TTY_BREAK"
    ELSE "TTY_NORMAL"

\* the number of bytes of the batch with a classification
RxClassCount(class) ==
    Cardinality({i \in 1..rx_in.level : CodeClass(rx_in.errs[i]) = class})

\* a batch that was read with errors indicated, no byte consumed as sysrq
\* and none rejected
RxPlainErrorBatch ==
    /\ rx_in.outcome = "processed"
    /\ rx_in.level >= 1
    /\ rx_in.he
    /\ \A i \in 1..rx_in.level : ~rx_in.bytes[i].sysrq /\ rx_in.bytes[i].accept

\* C13: such a batch of N bytes gives N pushes in FIFO order, byte i with
\* the classification of its error code; each error counter grows by the
\* number of bytes with its classification; one flush follows.
C13_Classification ==
    RxPlainErrorBatch =>
        /\ rx_pushed = [i \in 1..rx_in.level |-> <<i, CodeClass(rx_in.errs[i])>>]
        /\ icount.frame - rx_in.icount.frame = RxClassCount("TTY_FRAME")
        /\ icount.parity - rx_in.icount.parity = RxClassCount("TTY_PARITY")
        /\ icount.overrun - rx_in.icount.overrun = RxClassCount("TTY_OVERRUN")
        /\ icount.brk - rx_in.icount.brk = RxClassCount("TTY_BREAK")
        /\ icount.rx - rx_in.icount.rx = rx_in.level
        /\ rx_flushes = 1

\* a batch with a normal, a parity and a hardware-overrun byte, after an
\* earlier batch had already counted a break
C13_Witness ==
    /\ RxPlainErrorBatch
    /\ rx_in.level = 3
    /\ rx_in.errs = <<"NO_ERROR", "PARITY_ERROR", "HW_OR_ERROR">>
    /\ rx_in.icount.brk = 1
    /\ icount.brk = 2
    /\ icount.parity = 1

\* a port operation has returned
CtlReturned(op) == ctl_op.op = op /\ pc["ctl"] = "idle"

\* C14: startup returns an error exactly when one of its two register
\* writes failed (the port is then not started); when it returns success
\* the enable bits were written to CFG0 and the three interrupt enables to
\* IER.
C14_StartupOutcome ==
    /\ [](CtlReturned("startup") =>
            /\ ctl_ret \in {"ok", "error"}
            /\ ctl_ret = "error" <=> ctl_op.failed # {}
            /\ ctl_ret = "error" => ~started)
    /\ [][(pc["ctl"] = "su_cfg0" /\ pc'["ctl"] = "su_ier") =>
            {CFG0_CTX, CFG0_CRX, CFG0_TXEN, CFG0_RXEN} \subseteq CFG0']_vars
    /\ [][(pc["ctl"] = "su_ier" /\ ctl_ret' = "ok") =>
            /\ {IER_THR, IER_RHR, IER_RLSE} \subseteq IER'
            /\ {CFG0_TXEN, CFG0_RXEN} \subseteq CFG0'
            /\ started']_vars

\* startup has returned an error after the enable write succeeded and the
\* interrupt unmask failed
C14_Witness ==
    /\ CtlReturned("startup")
    /\ ctl_ret = "error"
    /\ ctl_op.failed = {"IER"}
    /\ {CFG0_TXEN, CFG0_RXEN} \subseteq CFG0
    /\ ~started

\* C15: a port operation in which a register write failed
\* returns an error outcome to its caller, shutdown and set_termios as well
\* as startup.
C15_BusErrorsReported ==
    \A op \in {"startup", "shutdown", "set_termios"} :
        (CtlReturned(op) /\ ctl_op.failed # {}) => ctl_ret = "error"

\* the register value that selects a rate
BaudSelect(rate) == <<"MCA_REG_UART_BAUD", rate>>

\* C16: a set_termios whose writes succeeded has written to the baud
\* register the value of the requested rate when that rate is one of the
\* nine supported ones and the value of the 9600 default otherwise; an
\* unsupported rate does not keep the register from being written, and 9600
\* gives the value of the default.
C16_BaudRegister ==
    (CtlReturned("set_termios") /\ ctl_op.failed = {}) =>
        /\ ctl_arg.rate \in {1200, 2400, 4800, 9600, 19200, 38400, 57600, 115200, 230400}
              => BAUD = BaudSelect(ctl_arg.rate)
        /\ ctl_arg.rate \notin {1200, 2400, 4800, 9600, 19200, 38400, 57600, 115200, 230400}
              => BAUD = BaudSelect(MCA_UART_DEFAULT_BRATE)
        /\ ctl_arg.rate = MCA_UART_DEFAULT_BRATE => BAUD = MCA_UART_DEFAULT_BAUD_REG

\* 4000 was requested after 115200 had been configured: the register holds
\* the value of 9600
C16_Witness ==
    /\ CtlReturned("set_termios")
    /\ ctl_op.failed = {}
    /\ ctl_arg.rate = 4000
    /\ BAUD = BaudSelect(9600)
    /\ calls >= 3

\* a bulk read into rx_buf or error_buf is in progress
InBulkRead == pc["irq"] \in {"rd_errs", "rd_rhr", "rd_rhr2"}

\* C17: the RX engine never transfers more bytes than its buffers hold: with
\* a level above the 128 bytes of the buffers no bulk read of that length is
\* issued and no byte is forwarded to the sink.
C17_NoReadPastBuffer ==
    /\ InBulkRead => rxlen <= MCA_UART_RX_FIFO_SIZE
    /\ (rx_in.outcome # "none" /\ rx_in.level > MCA_UART_RX_FIFO_SIZE) => rx_pushed = <<>>

\* the invocation of mca_uart_handle_rx that read a nonzero level returned
RxReturnedNonzero ==
    /\ rx_in.level > 0
    /\ rx_in.outcome \in {"early", "processed", "aborted"}

\* C18: every invocation of the RX engine that read a nonzero level has
\* flushed the sink exactly once when it returns, whatever read failed after
\* the level was read.
C18_FlushedOnce == RxReturnedNonzero => rx_flushes = 1

\* the counters of port->icount that the RX engine maintains
RxCounters(ic) == <<ic.rx, ic.frame, ic.parity, ic.overrun, ic.brk>>

\* the retry of the data read completes with the data
RetrySucceeds == pc["irq"] = "rd_rhr2" /\ rx_in'.outcome = "processed"

\* C19: the data read is attempted at most twice in an invocation, the second
\* time only after the first failed; when the second fails too the
\* invocation forwards nothing and changes no receive or error counter; when
\* the second succeeds the bytes are forwarded and counted as after a first
\* read that succeeded.
C19_RetryOnce ==
    /\ [](/\ rhr_failed <= 1
          /\ pc["irq"] = "rd_rhr" => rhr_failed = 0
          /\ pc["irq"] = "rd_rhr2" => rhr_failed = 1
          /\ rx_in.outcome = "aborted" =>
                /\ rx_pushed = <<>>
                /\ RxCounters(icount) = RxCounters(rx_in.icount))
    /\ [][RetrySucceeds =>
            /\ C10_RxAccounting'
            /\ icount'.rx = rx_in'.icount.rx + rx_in'.level
            /\ rx_flushes' = 1]_vars

\* after a batch of one byte was processed, both data reads of a batch of
\* two bytes failed
C19_Witness ==
    /\ rx_in.outcome = "aborted"
    /\ rx_in.level = 2
    /\ rx_in.icount.rx = 1
    /\ icount.rx = 1

\* the batch was processed and the sink rejected one of its bytes
RxRejected == rx_in.outcome = "processed" /\ RxFirstRejected <= rx_in.level

\* the positions in the batch of the bytes pushed, in the order of the pushes
RxPushedAt == [j \in 1..Len(rx_pushed) |-> rx_pushed[j][1]]

\* the overruns counted for the rejection: those of the invocation less one
\* for each byte offered with the FIFO overrun code
RxRejectionOverruns == RxOverruns - Cardinality(RxFifoOverruns)

\* C20 as stated: when the sink rejects a byte, one overrun is counted for
\* the rejection and the bytes pushed are exactly the bytes of the batch that
\* precede the rejected one, in FIFO order.
C20_PrecedingBytesPushed ==
    RxRejected =>
        /\ RxRejectionOverruns = 1
        /\ RxPushedAt = [j \in 1..(RxFirstRejected - 1) |-> j]

\* C20 as amended: when the sink rejects a byte, one overrun is counted for
\* the rejection, no byte after the rejected one is pushed, and the bytes
\* pushed are, in FIFO order, the bytes before the rejected one that the
\* sysrq hook did not consume.
C20_RejectionEndsBatch ==
    RxRejected =>
        /\ RxRejectionOverruns = 1
        /\ \A j \in 1..Len(rx_pushed) : RxPushedAt[j] < RxFirstRejected
        /\ \A j \in 1..(Len(rx_pushed) - 1) : RxPushedAt[j] < RxPushedAt[j + 1]
        /\ {RxPushedAt[j] : j \in 1..Len(rx_pushed)} = {i \in RxOffered : i < RxFirstRejected}

\* a batch of three bytes: the first forwarded, the second rejected, the
\* third one the sink would have accepted
C20_Witness ==
    /\ RxRejected
    /\ rx_in.level = 3
    /\ RxFirstRejected = 2
    /\ rx_in.bytes[3].accept /\ ~rx_in.bytes[3].sysrq
    /\ RxPushedAt = <<1>>
    /\ RxOverruns = 1

\* C21: a worker run for the stop intents S clears in IER the enable of
\* RX-ready iff stop-RX is in S and that of TX-ready iff stop-TX is in S, and
\* writes in CFG0 the FIFO-clear bit of RX as set iff stop-RX is in S and
\* that of TX as set iff stop-TX is in S; the bits of a direction that is
\* not in S are outside the masks. The runs looked at are those that ended
\* after applying S, all of it requested before the run started.
C21_StopBitsApplied ==
    \A S \in SUBSET {WORK_STOP_RX, WORK_STOP_TX} :
        (dw_run.done /\ dw_run.clean /\ dw_run.intents = S /\ S # {}) =>
            LET ier == dw_run.writes[1]
                cfg0 == dw_run.writes[2]
            IN /\ ier[1] = "IER" /\ cfg0[1] = "CFG0"
               /\ ier[3] = {}
               /\ ier[2] \subseteq {IER_RHR, IER_THR}
               /\ IER_RHR \in ier[2] <=> WORK_STOP_RX \in S
               /\ IER_THR \in ier[2] <=> WORK_STOP_TX \in S
               /\ cfg0[2] \subseteq {CFG0_CRX, CFG0_CTX}
               /\ CFG0_CRX \in cfg0[2] <=> WORK_STOP_RX \in S
               /\ CFG0_CTX \in cfg0[2] <=> WORK_STOP_TX \in S
               /\ CFG0_CRX \in cfg0[3] <=> WORK_STOP_RX \in S
               /\ CFG0_CTX \in cfg0[3] <=> WORK_STOP_TX \in S

\* C22: a worker run that found pending bits clears pending_work at its end,
\* after the writes of IER and of CFG0 were attempted and not before,
\* whether or not they failed, and does not queue itself again.
C22_ClearedAfterWrites ==
    [][LET \* the step that ends a worker run which found pending bits
           ends == pc["dw"] \in {"wr_cfg0", "wr_msr"} /\ pc'["dw"] = "idle"
       IN /\ ends =>
               /\ pending_work' = {}
               /\ Len(dw_run'.writes) >= 2
               /\ dw_run'.writes[1][1] = "IER"
               /\ dw_run'.writes[2][1] = "CFG0"
               /\ wq_pending'["dw"] = wq_pending["dw"]
               /\ wq_queued'["dw"] = wq_queued["dw"]
          /\ (pc'["dw"] # pc["dw"] /\ ~ends) => pending_work' = pending_work]_vars

\* stop_rx alone was called: the run's write of CFG0, which sets the
\* FIFO-clear bit of RX, failed, and nothing is pending or queued
C22_Witness ==
    /\ calls = 1
    /\ dw_run.done
    /\ Len(dw_run.writes) = 2
    /\ dw_run.writes[2] = <<"CFG0", {CFG0_CRX}, {CFG0_CRX}>>
    /\ CFG0_CRX \notin CFG0
    /\ pending_work = {}
    /\ wq_queued["dw"] = 0 /\ ~wq_pending["dw"]

\* C23: a worker run that finds pending_work empty at entry returns at once:
\* it writes no register and leaves pending_work as it is.
C23_EmptyRunIsNoOp ==
    [][(pc["dw"] = "lock" /\ pc'["dw"] # "lock" /\ pending_work = {}) =>
          /\ pc'["dw"] = "idle"
          /\ dw_run'.done /\ dw_run'.writes = <<>>
          /\ pending_work' = pending_work
          /\ <<IER, CFG0, CFG1, BAUD, MSR>>' = <<IER, CFG0, CFG1, BAUD, MSR>>]_vars

\* a run queued by a second request, after the first run had cleared
\* pending_work, found nothing pending
C23_Witness ==
    /\ dw_run.done
    /\ dw_run.writes = <<>>
    /\ dw_run.intents # {}
    /\ pc["dw"] = "idle"
    /\ pending_work = {}

\* C24: a worker run writes the RTS bit of MSR iff WORK_SET_RTS or
\* WORK_CLEAR_RTS is pending; it writes the bit as set when WORK_SET_RTS is
\* pending, alone or with WORK_CLEAR_RTS, and as clear when only
\* WORK_CLEAR_RTS is pending.
C24_RtsWrite ==
    [][/\ (pc["dw"] = "wr_cfg0" /\ pc'["dw"] # "wr_cfg0") =>
            IF pending_work \cap {WORK_SET_RTS, WORK_CLEAR_RTS} = {}
            THEN /\ pc'["dw"] = "idle"
                 /\ MSR' = MSR
                 /\ \A i \in 1..Len(dw_run'.writes) : dw_run'.writes[i][1] # "MSR"
            ELSE /\ pc'["dw"] = "wr_msr"
                 /\ dw_msr' = IF WORK_SET_RTS \in pending_work THEN {MSR_RTS} ELSE {}
       /\ (pc["dw"] = "wr_msr" /\ pc'["dw"] # "wr_msr") =>
            /\ dw_run'.writes[Len(dw_run'.writes)] = <<"MSR", {MSR_RTS}, dw_msr>>
            /\ MSR' \in {MSR, (MSR \ {MSR_RTS}) \cup dw_msr}]_vars

\* with both RTS bits pending the worker is writing the RTS bit as set
C24_Witness ==
    /\ pc["dw"] = "wr_msr"
    /\ {WORK_SET_RTS, WORK_CLEAR_RTS} \subseteq pending_work
    /\ dw_msr = {MSR_RTS}

\* C25: when the read of IIR succeeds, the RX engine is entered inline once
\* iff RHR is flagged, with the line-status flag as its error argument and
\* before any scheduling; the TX work is queued by the handler iff THR is
\* flagged and the work is not pending already; the handler reads no TXLVL,
\* moves no tail and writes no THR.
C25_Dispatch ==
    [][LET \* a step of the interrupt handler
           step == pc'["irq"] # pc["irq"]
           \* the handler returns after a successful read of IIR
           returns == step /\ pc'["irq"] = "idle" /\ pc["irq"] # "rd_iir"
           \* THR was flagged in the value read by this invocation
           thr == IF pc["irq"] = "dispatch" THEN IIR_THR \in iir ELSE irq_thr
           RxPcs == {"rd_rxlvl", "rd_lsr", "rd_errs", "rd_rhr", "rd_rhr2"}
       IN /\ step =>
               /\ pc'["irq"] \notin {"rd_txlvl", "wr_thr"}
               /\ xmit_tail' = xmit_tail
               /\ icount'.tx = icount.tx
               /\ UNCHANGED <<tx_buf, tx_to_send, tx_txlen, tx_hist>>
               /\ pc'["irq"] = "rd_rxlvl" => pc["irq"] = "dispatch"
               /\ pc'["irq"] = "dispatch" => pc["irq"] = "rd_iir"
          /\ (step /\ pc["irq"] = "dispatch") =>
               /\ (pc'["irq"] = "rd_rxlvl") <=> (IIR_RHR \in iir)
               /\ IIR_RHR \in iir =>
                     /\ has_errors' = (IIR_RLSE \in iir)
                     /\ irq_thr' = (IIR_THR \in iir)
                     /\ rx_in'.outcome = "running"
               /\ IIR_RHR \notin iir => pc'["irq"] = "idle" /\ rx_in' = rx_in
          /\ (step /\ pc'["irq"] # "idle") =>
               /\ UNCHANGED <<wq_pending, wq_queued>>
               /\ pc["irq"] \in RxPcs => pc'["irq"] \in RxPcs /\ irq_thr' = irq_thr
          /\ returns =>
               IF thr /\ ~work_pending("tx")
               THEN wq_pending'["tx"] /\ wq_queued'["tx"] = wq_queued["tx"] + 1
               ELSE UNCHANGED <<wq_pending, wq_queued>>]_vars

\* an invocation that read RHR, RLSE and THR has run the RX engine over a
\* batch with errors and has queued the TX work on its return
C25_Witness ==
    /\ pc["irq"] = "idle"
    /\ mutex = "free"
    /\ rx_in.outcome = "processed"
    /\ rx_in.he
    /\ Len(rx_pushed) > 0
    /\ wq_queued["tx"] = 1
    /\ wq_running["tx"] = 0
    /\ tx_owed = "no"
    /\ icount.tx = 0

\* C26: a TX run that finds the tty absent, the circular buffer empty or the
\* channel stopped ends at once: no register is read or written, the tail,
\* the counters and the staged bytes stay as they are, the sink is not
\* woken and the TX work is not queued.
C26_IdleRunIsNoOp ==
    [][(/\ pc["tx"] = "lock" /\ pc'["tx"] # "lock"
        /\ ~tty \/ xmit_head = xmit_tail \/ tx_stopped) =>
          /\ pc'["tx"] = "idle"
          /\ wq_running'["tx"] = wq_running["tx"] - 1
          /\ UNCHANGED <<hwv, mutex, xmit_tail, xmit_head, icount, wakeups>>
          /\ UNCHANGED <<wq_pending, wq_queued, tx_buf, tx_hist>>]_vars

\* the only call so far was start_tx, on a port that has no tty: the run it
\* queued has ended
C26_Witness ==
    /\ calls = 1
    /\ ~tty
    /\ tx_owed = "no"
    /\ pc["tx"] = "idle"
    /\ wq_queued["tx"] = 0
    /\ wq_running["tx"] = 0
    /\ mutex = "free"
    /\ icount.tx = 0
    /\ tx_hist.taken = <<>>

\* C27: the bytes written to THR, in order, are the bytes taken from the
\* circular buffer, in order; every byte counted in icount.tx was taken,
\* and once the bulk write has returned every taken byte has been written,
\* also when the write failed.
C27_WrittenIsTaken ==
    /\ Len(tx_hist.taken) = icount.tx
    /\ tx_hist.taken =
          tx_hist.written \o (IF pc["tx"] = "wr_thr" THEN tx_buf ELSE <<>>)

\* C28: an intent requested before shutdown is not applied after the port
\* is started again: once startup has returned, a bit of pending_work
\* belongs to a request in progress or to a worker that is queued or
\* running; a bit left behind by the cancelled worker is not there.
C28_NoStaleIntent ==
    (/\ started
     /\ pc["ctl"] = "idle"
     /\ pc["req"] = "idle"
     /\ wq_queued["dw"] = 0
     /\ wq_running["dw"] = 0) => pending_work = {}

\* C29: after stop_tx has returned on a started port and start_tx was
\* called after it with more bytes in the circular buffer than the FIFO
\* takes at once, with the device working and the threads scheduled fairly,
\* every byte of the buffer is eventually written to THR, whichever of the
\* control worker and the TX run comes first.
C29_TxRestartDrains ==
    (/\ started
     /\ tty
     /\ ~tx_stopped
     /\ dw_owed # "no" \/ dw_run.done
     /\ tx_owed = "owed"
     /\ uart_circ_chars_pending > XmitSize - 2) ~> (uart_circ_empty /\ pc["tx"] = "idle")
====
